---- MODULE Spec2Model ----
(***************************************************************************)
(* Model of the Otodata BLE -> MQTT bridge (src/monitor.py).               *)
(*                                                                         *)
(* Python values are represented as follows:                               *)
(*   bytes            sequence of integers 0..255                          *)
(*   str              a string literal; a computed numeral (str(n)) is a   *)
(*                    sequence of one-character strings; a local name,    *)
(*                    which the pattern reads character by character, is  *)
(*                    the sequence of its Unicode code points             *)
(*   Optional[T]      None == <<>>, Some(x) == <<x>>                       *)
(*   int (serial)     a pair of 16-bit limbs [hi, lo] (value hi*65536+lo), *)
(*                    so that the full unsigned 32-bit range is covered    *)
(*   float            a decimal [m, e] with value m / 10^e, e minimal      *)
(*   dict             a function whose DOMAIN is the set of keys           *)
(*   json.dumps(d)    the record d itself (the JSON object)                *)
(***************************************************************************)
EXTENDS Integers, Sequences, FiniteSets, TLC

VARIABLES
    pc,                  \* position of main(): the statement it executes next
    client,              \* the paho client object as main() has configured it
    known_tanks,         \* monitor.py:30  MAC address -> serial
    configured_serials,  \* monitor.py:32  serials already announced
    published,           \* every client.publish call issued so far, in order
    last,                \* the handler call that returned in the last step: its input and outcome
    identity_decodes,    \* history: <<address, serial>> of every successful parse_serial of a returned callback
    nCalls,              \* callbacks delivered so far (advertisements and connection notifications)
    threads              \* thread -> position and locals of its activation of detection_callback

vars == <<pc, client, known_tanks, configured_serials, published, last,
          identity_decodes, nCalls, threads>>

----------------------------------------------------------------------------
(* Bounds of the model.                                                    *)

\* number of callbacks (advertisements and connection notifications) delivered in one run
MaxCalls == 3
\* longest manufacturer payload drawn for the parse_serial specification
MaxPayloadLen == 12

----------------------------------------------------------------------------
(* Python helpers.                                                         *)

None == <<>>
Some(x) == <<x>>

Min(a, b) == IF a < b THEN a ELSE b

\* dict.get(key): None when the key is absent
dict_get(d, k) == IF k \in DOMAIN d THEN Some(d[k]) ELSE None

\* bytes.startswith / str.startswith
startswith(data, prefix) ==
    /\ Len(data) >= Len(prefix)
    /\ SubSeq(data, 1, Len(prefix)) = prefix

\* the slice data[lo:hi] (0-based, hi exclusive, clipped to the length, never an error)
slice(data, lo, hi) ==
    IF lo >= Min(hi, Len(data)) THEN <<>> ELSE SubSeq(data, lo + 1, Min(hi, Len(data)))

\* the byte at 0-based index i of a little-endian field, 0 past its end
ByteAt(bs, i) == IF i < Len(bs) THEN bs[i + 1] ELSE 0

\* int.from_bytes(bs, byteorder="little") for Len(bs) <= 4, as 16-bit limbs
from_bytes_little(bs) ==
    [hi |-> ByteAt(bs, 2) + 256 * ByteAt(bs, 3),
     lo |-> ByteAt(bs, 0) + 256 * ByteAt(bs, 1)]

Digit(d) == <<"0", "1", "2", "3", "4", "5", "6", "7", "8", "9">>[d + 1]

\* str(n) of a non-negative int given as limbs: repeated division by ten
RECURSIVE str(_)
str(n) ==
    LET t   == (n.hi % 10) * 65536 + n.lo      \* t < 10 * 65536
        quo == [hi |-> n.hi \div 10, lo |-> t \div 10]
        r   == t % 10
    IN  IF n.hi = 0 /\ n.lo < 10 THEN <<Digit(n.lo)>>
        ELSE Append(str(quo), Digit(r))

----------------------------------------------------------------------------
(* Configuration and constants, monitor.py:15-26.                          *)

BRIDGE_TOPIC == <<"otodata", "bridge", "status">>
HA_PREFIX == "homeassistant"
OTODATA_MFG_ID == 945
OTODATA_PREFIX == <<79, 84, 79>>      \* b"OTO"

----------------------------------------------------------------------------
(* parse_serial, monitor.py:96-105.  Slicing never raises, so the except   *)
(* clause is not reachable from a bytes argument.                          *)

parse_serial_big_endian(mfg_data) ==
    IF startswith(mfg_data, OTODATA_PREFIX)
    THEN LET f == slice(mfg_data, 7, 11)
             r == [i \in 1..Len(f) |-> f[Len(f) + 1 - i]]
         IN  Some(str(from_bytes_little(r)))
    ELSE None

\* a bug: the tag is not tested
parse_serial_no_tag_check(mfg_data) ==
    Some(str(from_bytes_little(slice(mfg_data, 7, 11))))

\* parse_serial_big_endian above: the serial field read with byteorder="big"
parse_serial(mfg_data) ==
    IF startswith(mfg_data, OTODATA_PREFIX)
    THEN Some(str(from_bytes_little(slice(mfg_data, 7, 11))))
    ELSE None

----------------------------------------------------------------------------
(* re.search(r"level:\s*([\d.]+)", name), monitor.py:140.  The name is the  *)
(* sequence of its code points.                                            *)

LEVEL_TOKEN == <<108, 101, 118, 101, 108, 58>>                      \* "level:"

\* \d of a str pattern: the decimal digits of Unicode (category Nd).  They
\* come in runs of ten, zero first; these are the code points of the zeros.
DecimalDigitZeros ==
    { 48, 1632, 1776, 1984, 2406, 2534, 2662, 2790, 2918, 3046, 3174, 3302,
      3430, 3558, 3664, 3792, 3872, 4160, 4240, 6112, 6160, 6470, 6608, 6784,
      6800, 6992, 7088, 7232, 7248, 42528, 43216, 43264, 43472, 43504, 43600,
      44016, 65296, 66720, 68912, 69734, 69872, 69942, 70096, 70384, 70736,
      70864, 71248, 71360, 71472, 71904, 72016, 72784, 73040, 73120, 92768,
      92864, 93008, 120782, 120792, 120802, 120812, 120822, 123200, 123632,
      125264, 130032 }

\* \s of a str pattern: the whitespace of Unicode
Whitespace ==
    (9..13) \cup (28..32) \cup {133, 160, 5760} \cup (8192..8202)
       \cup {8232, 8233, 8239, 8287, 12288}

IsDigit(c) == \E z \in DecimalDigitZeros : c \in z..(z + 9)
IsSpace(c) == c \in Whitespace
IsNumChar(c) == IsDigit(c) \/ c = 46                             \* "."

TokenAt(name, i) ==
    /\ i + Len(LEVEL_TOKEN) - 1 <= Len(name)
    /\ SubSeq(name, i, i + Len(LEVEL_TOKEN) - 1) = LEVEL_TOKEN

\* first index >= j whose character is not whitespace (Len(name) + 1 if none)
RECURSIVE SkipSpaces(_, _)
SkipSpaces(name, j) ==
    IF j <= Len(name) /\ IsSpace(name[j]) THEN SkipSpaces(name, j + 1) ELSE j

\* first index >= j whose character is not in [\d.] (Len(name) + 1 if none)
RECURSIVE RunEnd(_, _)
RunEnd(name, j) ==
    IF j <= Len(name) /\ IsNumChar(name[j]) THEN RunEnd(name, j + 1) ELSE j

\* the pattern anchored at index i: Some(group 1) or None
MatchAt(name, i) ==
    IF TokenAt(name, i)
    THEN LET j == SkipSpaces(name, i + Len(LEVEL_TOKEN))
             k == RunEnd(name, j)
         IN  IF k > j THEN Some(SubSeq(name, j, k - 1)) ELSE None
    ELSE None

\* re.search: the leftmost match; Some(match.group(1)) or None
re_search_level(name) ==
    LET starts == {i \in 1..Len(name) : MatchAt(name, i) # None}
    IN  IF starts = {} THEN None
        ELSE MatchAt(name, CHOOSE i \in starts : \A k \in starts : i <= k)

----------------------------------------------------------------------------
(* float(s) for s over [\d.], monitor.py:143.  A decimal digit of any     *)
(* script counts as its ASCII digit.                                       *)

DigitVal(c) == c - (CHOOSE z \in DecimalDigitZeros : c \in z..(z + 9))

RECURSIVE ToNat(_)
ToNat(ds) ==
    IF ds = <<>> THEN 0 ELSE 10 * ToNat(SubSeq(ds, 1, Len(ds) - 1)) + DigitVal(ds[Len(ds)])

RECURSIVE StripTrailingZeros(_)
StripTrailingZeros(ds) ==
    IF ds # <<>> /\ DigitVal(ds[Len(ds)]) = 0
    THEN StripTrailingZeros(SubSeq(ds, 1, Len(ds) - 1)) ELSE ds

Dots(s) == {i \in 1..Len(s) : s[i] = 46}

\* float(s) raises ValueError: more than one point, or no digit at all
float_raises(s) == Cardinality(Dots(s)) > 1 \/ Cardinality(Dots(s)) = Len(s)

\* the value of float(s) when it does not raise: m / 10^e with e minimal
float(s) ==
    LET p    == IF Dots(s) = {} THEN Len(s) + 1 ELSE CHOOSE i \in Dots(s) : TRUE
        ip   == SubSeq(s, 1, p - 1)
        frac == StripTrailingZeros(SubSeq(s, p + 1, Len(s)))
    IN  [m |-> ToNat(ip \o frac), e |-> Len(frac)]

----------------------------------------------------------------------------
(* client.publish(topic, payload, retain=...) and logging.<level>(msg).    *)

Publication(topic, payload, retain) ==
    [topic |-> topic, payload |-> payload, retain |-> retain]

LogRecord(level, msg) == [level |-> level, msg |-> msg]

----------------------------------------------------------------------------
(* publish_ha_discovery, monitor.py:39-93.  The argument `configured` is   *)
(* the global configured_serials at the call; the result carries the       *)
(* publish calls issued, the records logged and the global's new value.    *)

state_topic(serial) == <<"otodata", serial, "state">>

device_info(serial) ==
    [identifiers  |-> << <<"otodata_", serial>> >>,
     name         |-> <<"Propane Tank ", serial>>,
     manufacturer |-> "Otodata",
     model        |-> "TM6030"]

config_level(serial) ==
    [name                |-> "Propane Level",
     unique_id           |-> <<"otodata_", serial, "_level">>,
     state_topic         |-> state_topic(serial),
     availability_topic  |-> BRIDGE_TOPIC,
     unit_of_measurement |-> "%",
     value_template      |-> "{{ value_json.level }}",
     device_class        |-> "gas",
     icon                |-> "mdi:propane-tank",
     device              |-> device_info(serial)]

config_rssi(serial) ==
    [name                |-> "Signal Strength",
     unique_id           |-> <<"otodata_", serial, "_rssi">>,
     state_topic         |-> state_topic(serial),
     availability_topic  |-> BRIDGE_TOPIC,
     unit_of_measurement |-> "dBm",
     value_template      |-> "{{ value_json.rssi }}",
     device_class        |-> "signal_strength",
     entity_category     |-> "diagnostic",
     device              |-> device_info(serial)]

level_config_topic(serial) == <<HA_PREFIX, "sensor", <<"otodata_", serial>>, "level", "config">>
rssi_config_topic(serial) == <<HA_PREFIX, "sensor", <<"otodata_", serial>>, "rssi", "config">>

publish_ha_discovery(configured, serial) ==
    IF serial \in configured
    THEN [pubs |-> <<>>, logged |-> <<>>, configured_serials |-> configured]
    ELSE [pubs   |-> << Publication(level_config_topic(serial), config_level(serial), TRUE),
                        Publication(rssi_config_topic(serial), config_rssi(serial), TRUE) >>,
          logged |-> << LogRecord("INFO", <<"Discovered Tank", serial>>) >>,
          configured_serials |-> configured \cup {serial}]

----------------------------------------------------------------------------
(* on_connect, monitor.py:108-120.                                         *)

\* a bug: the result code is not tested
on_connect_ignores_rc(rc) ==
    [pubs   |-> << Publication(BRIDGE_TOPIC, "online", TRUE) >>,
     logged |-> << LogRecord("INFO", <<"Connected to MQTT Broker">>) >>]

on_connect(rc) ==
    IF rc = 0
    THEN [pubs   |-> << Publication(BRIDGE_TOPIC, "online", TRUE) >>,
          logged |-> << LogRecord("INFO", <<"Connected to MQTT Broker">>) >>]
    ELSE [pubs   |-> <<>>,
          logged |-> << LogRecord("ERROR", <<"MQTT Connection failed with code", rc>>) >>]

----------------------------------------------------------------------------
(* detection_callback, monitor.py:123-146.  `known` and `configured` are   *)
(* the globals at the call.  The result carries their new values, the      *)
(* publish calls issued, the records logged, the exception that escapes    *)
(* ("none" when the callback returns) and the serial parse_serial gave.    *)

\* Python truthiness of an Optional[bytes] / Optional[str]
truthy(opt) == opt # None /\ opt[1] # <<>>

\* part 1, monitor.py:128-134
link_mac_to_serial(known, configured, device, adv) ==
    LET mfg_bytes == dict_get(adv.manufacturer_data, OTODATA_MFG_ID)
        serial    == IF truthy(mfg_bytes) THEN parse_serial(mfg_bytes[1]) ELSE None
        keep      == [known_tanks |-> known, configured_serials |-> configured,
                      pubs |-> <<>>, logged |-> <<>>, decoded |-> serial]
    IN  IF truthy(serial) /\ device.address \notin DOMAIN known
        THEN LET d == publish_ha_discovery(configured, serial[1])
             IN  [known_tanks        |-> known @@ (device.address :> serial[1]),
                  configured_serials |-> d.configured_serials,
                  pubs               |-> d.pubs,
                  logged             |-> d.logged,
                  decoded            |-> serial]
        ELSE keep

\* a bug: the state is published without retain=True
publish_level_not_retained(known, device, adv) ==
    IF device.address \in DOMAIN known
    THEN LET name  == IF truthy(adv.local_name) THEN adv.local_name[1] ELSE <<>>
             match == re_search_level(name)
         IN  IF match # None
             THEN IF float_raises(match[1])
                  THEN [pubs |-> <<>>, logged |-> <<>>, raised |-> "ValueError"]
                  ELSE [pubs   |-> << Publication(state_topic(known[device.address]),
                                                  [level |-> float(match[1]), rssi |-> adv.rssi,
                                                   mac |-> device.address], FALSE) >>,
                        logged |-> << LogRecord("INFO", <<"level", known[device.address],
                                                         float(match[1])>>) >>,
                        raised |-> "none"]
             ELSE [pubs |-> <<>>, logged |-> <<>>, raised |-> "none"]
    ELSE [pubs |-> <<>>, logged |-> <<>>, raised |-> "none"]

\* part 2, monitor.py:136-146
publish_level(known, device, adv) ==
    IF device.address \in DOMAIN known
    THEN LET serial == known[device.address]
             name   == IF truthy(adv.local_name) THEN adv.local_name[1] ELSE <<>>
             match  == re_search_level(name)
         IN  IF match # None
             THEN IF float_raises(match[1])
                  THEN [pubs |-> <<>>, logged |-> <<>>, raised |-> "ValueError"]
                  ELSE LET level   == float(match[1])
                           payload == [level |-> level, rssi |-> adv.rssi,
                                       mac |-> device.address]
                       IN  [pubs   |-> << Publication(state_topic(serial), payload, TRUE) >>,
                            logged |-> << LogRecord("INFO", <<"level", serial, level>>) >>,
                            raised |-> "none"]
             ELSE [pubs |-> <<>>, logged |-> <<>>, raised |-> "none"]
    ELSE [pubs |-> <<>>, logged |-> <<>>, raised |-> "none"]

detection_callback(known, configured, device, adv) ==
    LET p1 == link_mac_to_serial(known, configured, device, adv)
        p2 == publish_level(p1.known_tanks, device, adv)
    IN  [known_tanks        |-> p1.known_tanks,
         configured_serials |-> p1.configured_serials,
         pubs               |-> p1.pubs \o p2.pubs,
         logged             |-> p1.logged \o p2.logged,
         raised             |-> p2.raised,
         decoded            |-> p1.decoded]

----------------------------------------------------------------------------
(* Inputs: the advertisements the scanner may deliver, and the result      *)
(* codes the bus client may report.                                        *)

TagStat == OTODATA_PREFIX \o <<83, 84, 65, 84>>                   \* b"OTOSTAT"

PayloadSerialA == TagStat \o <<138, 188, 4, 0>>                     \* serial 310410
PayloadSerialB == TagStat \o <<255, 255, 255, 255>> \o <<0>>        \* serial 4294967295
PayloadTagOnly == OTODATA_PREFIX                                    \* b"OTO", 3 bytes
PayloadNoTag   == <<88, 84, 79, 83, 84, 65, 84, 138, 188, 4, 0>>    \* b"XTOSTAT..."

NoMfgData == <<>>                                   \* manufacturer_data == {}
MfgData(payload) == (OTODATA_MFG_ID :> payload)      \* manufacturer_data == {945: payload}

NameModel    == <<84, 77, 54, 48, 51, 48, 32, 50, 48, 52, 55, 57, 49, 51, 51>>   \* "TM6030 20479133"
NameLevel80  == LEVEL_TOKEN \o <<32, 56, 48, 46, 48, 32, 37, 32, 118, 101, 114, 116, 105, 99, 97, 108>>   \* "level: 80.0 % vertical"
NameLevel55  == LEVEL_TOKEN \o <<53, 53, 46, 53>>   \* "level:55.5"
\* "level:" U+000C FORM FEED, U+FF18 FULLWIDTH DIGIT EIGHT, ".", U+0665 ARABIC-INDIC DIGIT FIVE
NameLevelUnicode == LEVEL_TOKEN \o <<12, 65304, 46, 1637>>
NameNoNumber == LEVEL_TOKEN \o <<32, 37, 32, 118, 101, 114, 116, 105, 99, 97, 108>>   \* "level: % vertical"
NameTwoDots  == LEVEL_TOKEN \o <<32, 49, 46, 50, 46, 51>>   \* "level: 1.2.3"

\* status broadcasts: a tagged payload, no level in the name
IdentityAdvs ==
    [manufacturer_data : {MfgData(PayloadSerialA), MfgData(PayloadSerialB), MfgData(PayloadTagOnly)},
     local_name : {None}, rssi : {-60}]

\* name broadcasts without a tagged payload
NameAdvs ==
    [manufacturer_data : {NoMfgData},
     local_name : {None, Some(NameModel), Some(NameNoNumber), Some(NameTwoDots)},
     rssi : {-75}]
    \cup [manufacturer_data : {MfgData(PayloadNoTag)}, local_name : {Some(NameModel)}, rssi : {-75}]

\* level broadcasts
ReadingAdvs ==
    [manufacturer_data : {NoMfgData}, local_name : {Some(NameLevel80)}, rssi : {-75}]
    \cup [manufacturer_data : {NoMfgData},
          local_name : {Some(NameLevel55), Some(NameLevelUnicode)}, rssi : {-60}]

\* broadcasts carrying a tagged payload and a level name at once
CombinedAdvs ==
    [manufacturer_data : {MfgData(PayloadSerialA)},
     local_name : {Some(NameLevel80), Some(NameTwoDots)}, rssi : {-60}]

Advertisements == IdentityAdvs \cup NameAdvs \cup ReadingAdvs \cup CombinedAdvs

Devices == { [address |-> "AA:BB:CC:DD:EE:FF"], [address |-> "11:22:33:44:55:66"] }

\* CONNACK reason codes: Success, Not authorized
ReasonCodes == {0, 135}

\* MQTT_USER / MQTT_PASS of the environment, monitor.py:17-18
MQTT_CREDENTIALS == [username |-> "user", password |-> "pass"]

----------------------------------------------------------------------------
(* The state machine.                                                      *)

NoDevice == [address |-> ""]
NoAdv == [manufacturer_data |-> <<>>, local_name |-> None, rssi |-> 0]

NoCall ==
    [op |-> "none", device |-> NoDevice, adv |-> NoAdv, rc |-> 0,
     raised |-> "none", logged |-> <<>>, pubs |-> <<>>,
     known_before |-> <<>>, configured_before |-> {}, decoded |-> None]

\* an activation of a handler: its position, its arguments and locals, and
\* what it has published and logged so far.  Thread 0 is the network thread
\* started by loop_start (monitor.py:158), which runs on_connect; thread 1 is
\* the event loop, on which the scanner runs detection_callback (monitor.py:164).
IdleThread ==
    [pc |-> "idle", device |-> NoDevice, adv |-> NoAdv, rc |-> 0,
     serial |-> None, decoded |-> None, pending |-> <<>>, raised |-> "none",
     known_before |-> <<>>, configured_before |-> {},
     pubs |-> <<>>, logged |-> <<>>]

\* module load (monitor.py:30, 32) and main() up to the Client constructor (150-154)
Init ==
    /\ pc = "will_set"
    /\ client = [will |-> None, on_connect |-> FALSE, loop_started |-> FALSE,
                 credentials |-> None, connect_request |-> None]
    /\ known_tanks = <<>>
    /\ configured_serials = {}
    /\ published = <<>>
    /\ last = NoCall
    /\ identity_decodes = {}
    /\ nCalls = 0
    /\ threads = [t \in {0, 1} |-> IdleThread]

\* monitor.py:155
MainWillSet ==
    /\ pc = "will_set"
    /\ pc' = "set_on_connect"
    /\ client' = [client EXCEPT !.will =
                    Some([topic |-> BRIDGE_TOPIC, payload |-> "offline", qos |-> 1, retain |-> TRUE])]
    /\ UNCHANGED <<known_tanks, configured_serials, published, last, identity_decodes, nCalls, threads>>

\* monitor.py:156
MainSetOnConnect ==
    /\ pc = "set_on_connect"
    /\ pc' = "connect"
    /\ client' = [client EXCEPT !.on_connect = TRUE]
    /\ UNCHANGED <<known_tanks, configured_serials, published, last, identity_decodes, nCalls, threads>>

\* monitor.py:157: the connection request carries the credentials set so far;
\* a refused connection raises out of main()
MainConnect ==
    /\ pc = "connect"
    /\ \E ok \in BOOLEAN :
          /\ pc' = IF ok THEN "loop_start" ELSE "crashed"
          /\ client' = [client EXCEPT !.connect_request =
                          Some([credentials |-> client.credentials, accepted |-> ok])]
    /\ UNCHANGED <<known_tanks, configured_serials, published, last, identity_decodes, nCalls, threads>>

\* monitor.py:158
MainLoopStart ==
    /\ pc = "loop_start"
    /\ pc' = "username_pw_set"
    /\ client' = [client EXCEPT !.loop_started = TRUE]
    /\ UNCHANGED <<known_tanks, configured_serials, published, last, identity_decodes, nCalls, threads>>

\* monitor.py:159
MainUsernamePwSet ==
    /\ pc = "username_pw_set"
    /\ pc' = "scanner"
    /\ client' = [client EXCEPT !.credentials = Some(MQTT_CREDENTIALS)]
    /\ UNCHANGED <<known_tanks, configured_serials, published, last, identity_decodes, nCalls, threads>>

\* monitor.py:163-166
MainStartScanner ==
    /\ pc = "scanner"
    /\ pc' = "scanning"
    /\ UNCHANGED <<client, known_tanks, configured_serials, published, last, identity_decodes, nCalls, threads>>

\* a bug: the controller publishes "offline" itself when it is interrupted
InterruptPublishesOffline ==
    /\ pc \notin {"stopped", "crashed"}
    /\ pc' = "stopped"
    /\ published' = Append(published, Publication(BRIDGE_TOPIC, "offline", TRUE))
    /\ UNCHANGED <<client, known_tanks, configured_serials, last, identity_decodes, nCalls, threads>>

\* monitor.py:172-175: KeyboardInterrupt ends asyncio.run(main())
Interrupt ==
    /\ pc \notin {"stopped", "crashed"}
    /\ pc' = "stopped"
    /\ UNCHANGED <<client, known_tanks, configured_serials, published, last, identity_decodes, nCalls, threads>>

\* the network thread is alive and has a handler to call
Networking ==
    /\ pc \notin {"stopped", "crashed"}
    /\ client.loop_started /\ client.on_connect

\* monitor.py:108-117, 119-120: the network loop delivers a connection
\* notification; on_connect tests rc and logs
OnConnect ==
    /\ Networking
    /\ threads[0].pc = "idle"
    /\ nCalls < MaxCalls
    /\ \E rc \in ReasonCodes :
          \E r \in {on_connect(rc)} :
             threads' = [threads EXCEPT ![0] =
                [IdleThread EXCEPT !.pc = IF r.pubs # <<>> THEN "oc_publish" ELSE "oc_return",
                                   !.rc = rc, !.pending = r.pubs, !.logged = r.logged,
                                   !.known_before = known_tanks,
                                   !.configured_before = configured_serials]]
    /\ nCalls' = nCalls + 1
    /\ last' = NoCall
    /\ UNCHANGED <<pc, client, known_tanks, configured_serials, published, identity_decodes>>

\* monitor.py:118: client.publish(BRIDGE_TOPIC, "online", retain=True)
OnConnectPublish ==
    /\ Networking
    /\ threads[0].pc = "oc_publish"
    /\ published' = published \o threads[0].pending
    /\ threads' = [threads EXCEPT ![0].pc = "oc_return",
                                  ![0].pubs = threads[0].pending,
                                  ![0].pending = <<>>]
    /\ last' = NoCall
    /\ UNCHANGED <<pc, client, known_tanks, configured_serials, identity_decodes, nCalls>>

\* on_connect returns
OnConnectReturn ==
    /\ Networking
    /\ threads[0].pc = "oc_return"
    /\ last' = [NoCall EXCEPT !.op = "on_connect", !.rc = threads[0].rc,
                              !.logged = threads[0].logged, !.pubs = threads[0].pubs,
                              !.known_before = threads[0].known_before,
                              !.configured_before = threads[0].configured_before]
    /\ threads' = [threads EXCEPT ![0] = IdleThread]
    /\ UNCHANGED <<pc, client, known_tanks, configured_serials, published,
                   identity_decodes, nCalls>>

----------------------------------------------------------------------------
(* detection_callback, statement by statement.  on_connect runs on the     *)
(* network thread and the callback on the event loop; nothing in           *)
(* monitor.py holds a lock, so every read and write of known_tanks and     *)
(* configured_serials, every publish and every return is a step of its     *)
(* own.  `last` holds the handler call that returned in the step leading   *)
(* to the state, NoCall after any other step of a handler.                 *)

At(t, label) == pc = "scanning" /\ t \in DOMAIN threads /\ threads[t].pc = label

Goto(t, label) == [threads EXCEPT ![t].pc = label]

\* monitor.py:128-131: the callback is entered with (device, adv); the vendor
\* entry is read and parsed
Deliver(t, advs, bound) ==
    /\ At(t, "idle")
    /\ nCalls < bound
    /\ \E device \in Devices, adv \in advs :
          \E mfg_bytes \in {dict_get(adv.manufacturer_data, OTODATA_MFG_ID)} :
          \E serial \in {IF truthy(mfg_bytes) THEN parse_serial(mfg_bytes[1]) ELSE None} :
             threads' = [threads EXCEPT ![t] =
                [IdleThread EXCEPT !.pc = IF truthy(serial) THEN "check_known" ELSE "reading",
                                   !.device = device, !.adv = adv,
                                   !.serial = serial, !.decoded = serial,
                                   !.known_before = known_tanks,
                                   !.configured_before = configured_serials]]
    /\ nCalls' = nCalls + 1
    /\ last' = NoCall
    /\ UNCHANGED <<pc, client, known_tanks, configured_serials, published, identity_decodes>>

\* monitor.py:132: if device.address not in known_tanks
T_CheckKnown(t) ==
    /\ At(t, "check_known")
    /\ threads' = Goto(t, IF threads[t].device.address \notin DOMAIN known_tanks
                          THEN "write_known" ELSE "reading")
    /\ last' = NoCall
    /\ UNCHANGED <<pc, client, known_tanks, configured_serials, published,
                   identity_decodes, nCalls>>

\* a bug: the registry is rebound to a new dict holding only the new entry
T_WriteKnown_rebinds(t) ==
    /\ At(t, "write_known")
    /\ known_tanks' = (threads[t].device.address :> threads[t].serial[1])
    /\ threads' = Goto(t, "check_configured")
    /\ last' = NoCall
    /\ UNCHANGED <<pc, client, configured_serials, published, identity_decodes, nCalls>>

\* monitor.py:133: known_tanks[device.address] = serial
T_WriteKnown(t) ==
    /\ At(t, "write_known")
    /\ known_tanks' = (threads[t].device.address :> threads[t].serial[1]) @@ known_tanks
    /\ threads' = Goto(t, "check_configured")
    /\ last' = NoCall
    /\ UNCHANGED <<pc, client, configured_serials, published, identity_decodes, nCalls>>

\* a bug: publish_ha_discovery always returns at once
T_CheckConfigured_never_announces(t) ==
    /\ At(t, "check_configured")
    /\ threads' = Goto(t, "reading")
    /\ last' = NoCall
    /\ UNCHANGED <<pc, client, known_tanks, configured_serials, published,
                   identity_decodes, nCalls>>

\* monitor.py:134, 44-45: publish_ha_discovery is entered;
\* if serial in configured_serials: return
T_CheckConfigured(t) ==
    /\ At(t, "check_configured")
    /\ threads' = Goto(t, IF threads[t].serial[1] \in configured_serials
                          THEN "reading" ELSE "publish_level_config")
    /\ last' = NoCall
    /\ UNCHANGED <<pc, client, known_tanks, configured_serials, published,
                   identity_decodes, nCalls>>

\* monitor.py:47-70: the level sensor config is published
T_PublishLevelConfig(t) ==
    /\ At(t, "publish_level_config")
    /\ \E m \in {Publication(level_config_topic(threads[t].serial[1]),
                             config_level(threads[t].serial[1]), TRUE)} :
          /\ published' = Append(published, m)
          /\ threads' = [threads EXCEPT ![t].pc = "publish_rssi_config",
                                        ![t].pubs = Append(@, m)]
    /\ last' = NoCall
    /\ UNCHANGED <<pc, client, known_tanks, configured_serials, identity_decodes, nCalls>>

\* monitor.py:72-88: the rssi sensor config is published
T_PublishRssiConfig(t) ==
    /\ At(t, "publish_rssi_config")
    /\ \E m \in {Publication(rssi_config_topic(threads[t].serial[1]),
                             config_rssi(threads[t].serial[1]), TRUE)} :
          /\ published' = Append(published, m)
          /\ threads' = [threads EXCEPT ![t].pc = "add_configured",
                                        ![t].pubs = Append(@, m)]
    /\ last' = NoCall
    /\ UNCHANGED <<pc, client, known_tanks, configured_serials, identity_decodes, nCalls>>

\* a bug: the serial is never added to configured_serials
T_AddConfigured_skips(t) ==
    /\ At(t, "add_configured")
    /\ threads' = Goto(t, "reading")
    /\ last' = NoCall
    /\ UNCHANGED <<pc, client, known_tanks, configured_serials, published,
                   identity_decodes, nCalls>>

\* monitor.py:92-93: logging.info, configured_serials.add(serial)
T_AddConfigured(t) ==
    /\ At(t, "add_configured")
    /\ configured_serials' = configured_serials \cup {threads[t].serial[1]}
    /\ threads' = [threads EXCEPT ![t].pc = "reading",
                      ![t].logged = Append(@, LogRecord("INFO",
                                       <<"Discovered Tank", threads[t].serial[1]>>))]
    /\ last' = NoCall
    /\ UNCHANGED <<pc, client, known_tanks, published, identity_decodes, nCalls>>

\* a bug: the reading of an unknown address goes on under a default serial
T_LookupSerial_unknown_default(t) ==
    /\ At(t, "reading")
    /\ threads' = [threads EXCEPT
          ![t].pc = "match",
          ![t].serial = IF threads[t].device.address \in DOMAIN known_tanks
                        THEN Some(known_tanks[threads[t].device.address])
                        ELSE Some(<<"u", "n", "k", "n", "o", "w", "n">>)]
    /\ last' = NoCall
    /\ UNCHANGED <<pc, client, known_tanks, configured_serials, published,
                   identity_decodes, nCalls>>

\* monitor.py:137-138: if device.address in known_tanks:
\* serial = known_tanks[device.address].  The two reads are one step: an
\* entry is never removed, so reading both at the time of line 138 gives the
\* same outcomes.
T_LookupSerial(t) ==
    /\ At(t, "reading")
    /\ threads' = IF threads[t].device.address \in DOMAIN known_tanks
                  THEN [threads EXCEPT
                           ![t].pc = "match",
                           ![t].serial = Some(known_tanks[threads[t].device.address])]
                  ELSE Goto(t, "return")
    /\ last' = NoCall
    /\ UNCHANGED <<pc, client, known_tanks, configured_serials, published,
                   identity_decodes, nCalls>>

\* monitor.py:139-144: the name is searched, the level converted and the
\* payload built, all from locals: publish_level under the serial read at
\* line 138.  float() may raise out of the callback.
T_Match(t) ==
    /\ At(t, "match")
    /\ \E r \in {publish_level((threads[t].device.address :> threads[t].serial[1]),
                               threads[t].device, threads[t].adv)} :
          threads' = [threads EXCEPT
             ![t].pc = IF r.pubs # <<>> THEN "publish_state" ELSE "return",
             ![t].pending = r.pubs,
             ![t].raised = r.raised,
             ![t].logged = IF r.pubs # <<>> THEN @ ELSE @ \o r.logged]
    /\ last' = NoCall
    /\ UNCHANGED <<pc, client, known_tanks, configured_serials, published,
                   identity_decodes, nCalls>>

\* monitor.py:145: client.publish(f"otodata/{serial}/state", ..., retain=True)
T_PublishState(t) ==
    /\ At(t, "publish_state")
    /\ published' = published \o threads[t].pending
    /\ threads' = [threads EXCEPT ![t].pc = "log_level",
                                  ![t].pubs = @ \o threads[t].pending]
    /\ last' = NoCall
    /\ UNCHANGED <<pc, client, known_tanks, configured_serials, identity_decodes, nCalls>>

\* monitor.py:146: logging.info of the level
T_LogLevel(t) ==
    /\ At(t, "log_level")
    /\ \E r \in {publish_level((threads[t].device.address :> threads[t].serial[1]),
                               threads[t].device, threads[t].adv)} :
          threads' = [threads EXCEPT ![t].pc = "return",
                                     ![t].pending = <<>>,
                                     ![t].logged = @ \o r.logged]
    /\ last' = NoCall
    /\ UNCHANGED <<pc, client, known_tanks, configured_serials, published,
                   identity_decodes, nCalls>>

\* detection_callback returns, or the ValueError of line 143 leaves it
T_Return(t) ==
    /\ At(t, "return")
    /\ last' = [op |-> "detection_callback",
                device |-> threads[t].device, adv |-> threads[t].adv,
                rc |-> 0, raised |-> threads[t].raised,
                logged |-> threads[t].logged,
                pubs |-> threads[t].pubs,
                known_before |-> threads[t].known_before,
                configured_before |-> threads[t].configured_before,
                decoded |-> threads[t].decoded]
    /\ identity_decodes' =
          IF truthy(threads[t].decoded)
          THEN identity_decodes \cup {<<threads[t].device.address, threads[t].decoded[1]>>}
          ELSE identity_decodes
    /\ threads' = [threads EXCEPT ![t] = IdleThread]
    /\ UNCHANGED <<pc, client, known_tanks, configured_serials, published, nCalls>>

\* the statements of an activation after its entry
CallbackSteps ==
    \/ \E t \in DOMAIN threads : T_CheckKnown(t)
    \/ \E t \in DOMAIN threads : T_WriteKnown(t)
    \/ \E t \in DOMAIN threads : T_CheckConfigured(t)
    \/ \E t \in DOMAIN threads : T_PublishLevelConfig(t)
    \/ \E t \in DOMAIN threads : T_PublishRssiConfig(t)
    \/ \E t \in DOMAIN threads : T_AddConfigured(t)
    \/ \E t \in DOMAIN threads : T_LookupSerial(t)
    \/ \E t \in DOMAIN threads : T_Match(t)
    \/ \E t \in DOMAIN threads : T_PublishState(t)
    \/ \E t \in DOMAIN threads : T_LogLevel(t)
    \/ \E t \in DOMAIN threads : T_Return(t)

\* the scanner delivers one advertisement to detection_callback (monitor.py:164)
DetectionCallback == Deliver(1, Advertisements, MaxCalls)

Next ==
    \/ MainWillSet
    \/ MainSetOnConnect
    \/ MainConnect
    \/ MainLoopStart
    \/ MainUsernamePwSet
    \/ MainStartScanner
    \/ Interrupt
    \/ OnConnect
    \/ OnConnectPublish
    \/ OnConnectReturn
    \/ DetectionCallback
    \/ CallbackSteps

Spec == Init /\ [][Next]_vars

----------------------------------------------------------------------------
(* Two activations of detection_callback whose statements interleave.      *)

MaxStepCalls == 2

StepAdvertisements ==
    { [manufacturer_data |-> MfgData(PayloadSerialA), local_name |-> None, rssi |-> -60],
      [manufacturer_data |-> MfgData(PayloadSerialB), local_name |-> None, rssi |-> -60],
      [manufacturer_data |-> NoMfgData, local_name |-> Some(NameLevel80), rssi |-> -60],
      [manufacturer_data |-> NoMfgData, local_name |-> Some(NameTwoDots), rssi |-> -75],
      [manufacturer_data |-> MfgData(PayloadSerialA), local_name |-> Some(NameLevel80), rssi |-> -60] }

\* the state main() has reached when the scanner delivers advertisements
InitConcurrent ==
    /\ pc = "scanning"
    /\ client = [will |-> Some([topic |-> BRIDGE_TOPIC, payload |-> "offline",
                                qos |-> 1, retain |-> TRUE]),
                 on_connect |-> TRUE, loop_started |-> TRUE,
                 credentials |-> Some(MQTT_CREDENTIALS),
                 connect_request |-> Some([credentials |-> None, accepted |-> TRUE])]
    /\ known_tanks = <<>>
    /\ configured_serials = {}
    /\ published = <<>>
    /\ last = NoCall
    /\ identity_decodes = {}
    /\ nCalls = 0
    /\ threads = [t \in {1, 2} |-> IdleThread]

ConcurrentDetectionCallback ==
    \E t \in DOMAIN threads : Deliver(t, StepAdvertisements, MaxStepCalls)

NextConcurrent ==
    \/ ConcurrentDetectionCallback
    \/ CallbackSteps

SpecConcurrent == InitConcurrent /\ [][NextConcurrent]_vars

----------------------------------------------------------------------------
(* parse_serial on its own: every payload of the bounded set is parsed.    *)

ParseTags == { OTODATA_PREFIX, <<79, 84, 84>>, <<111, 116, 111>>, <<88, 79, 84>> }
ParseBytes == {0, 1, 138, 255}

ParsePayloads ==
    { slice(tag \o <<83, 84, 65, 84>> \o f \o <<7, 9>>, 0, n) :
        tag \in ParseTags, f \in [1..4 -> ParseBytes], n \in 0..MaxPayloadLen }

\* the payload to parse is drawn at the start
InitParse ==
    /\ pc = "will_set"
    /\ client = [will |-> None, on_connect |-> FALSE, loop_started |-> FALSE,
                 credentials |-> None, connect_request |-> None]
    /\ known_tanks = <<>>
    /\ configured_serials = {}
    /\ published = <<>>
    /\ identity_decodes = {}
    /\ nCalls = 0
    /\ threads = <<>>
    /\ \E mfg_data \in ParsePayloads :
          last = [op |-> "input", mfg_data |-> mfg_data, serial |-> None]

ParseSerial ==
    /\ last.op = "input"
    /\ last' = [op |-> "parse_serial", mfg_data |-> last.mfg_data,
                serial |-> parse_serial(last.mfg_data)]
    /\ UNCHANGED <<pc, client, known_tanks, configured_serials, published,
                   identity_decodes, nCalls, threads>>

NextParse == ParseSerial

SpecParse == InitParse /\ [][NextParse]_vars

----------------------------------------------------------------------------
(* Vocabulary of the properties.                                           *)

IsCallback == last.op = "detection_callback"

\* the text the callback searches: adv.local_name or ""
NameOf(adv) == IF truthy(adv.local_name) THEN adv.local_name[1] ELSE <<>>

\* the payload stored under the vendor identifier, <<>> when there is none
VendorPayload(adv) ==
    IF OTODATA_MFG_ID \in DOMAIN adv.manufacturer_data
    THEN adv.manufacturer_data[OTODATA_MFG_ID] ELSE <<>>

HasTag(b) == Len(b) >= 3 /\ b[1] = 79 /\ b[2] = 84 /\ b[3] = 79

HasLevelToken(name) == \E i \in 1..Len(name) : TokenAt(name, i)

SerialsDecoded == {d[2] : d \in identity_decodes}
AddressesDecoded == {d[1] : d \in identity_decodes}

Count(seq, topic) == Cardinality({i \in 1..Len(seq) : seq[i].topic = topic})

IsStateTopic(t) == Len(t) = 3 /\ t[1] = "otodata" /\ t[3] = "state"

\* the publications issued by detection_callback: all but the bridge's own
AdvPublished == SelectSeq(published, LAMBDA m : m.topic # <<"otodata", "bridge", "status">>)

\* the publications issued by on_connect: those on the bridge's own topic
BridgePublished == SelectSeq(published, LAMBDA m : m.topic = <<"otodata", "bridge", "status">>)

IsSuffix(suffix, seq) ==
    /\ Len(suffix) <= Len(seq)
    /\ SubSeq(seq, Len(seq) - Len(suffix) + 1, Len(seq)) = suffix

\* the value of a decimal digit string, as 16-bit limbs
RECURSIVE DecimalLimbs(_)
DecimalLimbs(ds) ==
    IF ds = <<>> THEN [hi |-> 0, lo |-> 0]
    ELSE LET p == DecimalLimbs(SubSeq(ds, 1, Len(ds) - 1))
             t == p.lo * 10 + (CHOOSE d \in 0..9 : Digit(d) = ds[Len(ds)])
         IN  [hi |-> p.hi * 10 + t \div 65536, lo |-> t % 65536]

IsCanonicalDecimal(ds) ==
    /\ Len(ds) >= 1
    /\ \A i \in 1..Len(ds) : \E d \in 0..9 : ds[i] = Digit(d)
    /\ Len(ds) > 1 => ds[1] # "0"

SerialFromName == <<"2", "0", "4", "7", "9", "1", "3", "3">>
Serial310410 == <<"3", "1", "0", "4", "1", "0">>
Serial4294967295 == <<"4", "2", "9", "4", "9", "6", "7", "2", "9", "5">>

\* the serials of the two full-length payloads of the inputs
FullPayloadSerials == {Serial310410, Serial4294967295}

\* every identity decode so far came from a payload that holds the whole serial field
OnlyFullPayloadsDecoded == SerialsDecoded \subseteq FullPayloadSerials

----------------------------------------------------------------------------
(* The claims.                                                             *)

\* C1: every serial that an identity advertisement has decoded to has been
\* announced exactly once (one level-config and one rssi-config publication),
\* at its first identity decode, and no serial is announced more than once.
C1_DiscoveryExactlyOnceAtFirstDecode ==
    OnlyFullPayloadsDecoded =>
       /\ \A S \in SerialsDecoded :
             /\ Count(published, level_config_topic(S)) = 1
             /\ Count(published, rssi_config_topic(S)) = 1
       /\ (IsCallback /\ truthy(last.decoded) /\ last.decoded[1] \notin last.configured_before)
             => /\ Len(last.pubs) >= 2
                /\ last.pubs[1].topic = level_config_topic(last.decoded[1])
                /\ last.pubs[2].topic = rssi_config_topic(last.decoded[1])

\* C2: after an identity decode of (A, s2) at an address A that the registry
\* mapped to another serial s1, the registry maps A to s2.
C2_RegistryLastWriteWins ==
    ( /\ IsCallback
      /\ OnlyFullPayloadsDecoded
      /\ truthy(last.decoded)
      /\ last.device.address \in DOMAIN last.known_before
      /\ last.known_before[last.device.address] # last.decoded[1] )
    => known_tanks[last.device.address] = last.decoded[1]

\* C3: a callback whose local name matches the level pattern, from an address
\* that has never produced an identity decode, issues no publication and
\* raises nothing.
C3_DanglingReadingDropped ==
    ( /\ IsCallback
      /\ re_search_level(NameOf(last.adv)) # None
      /\ last.device.address \notin AddressesDecoded )
    => /\ last.pubs = <<>>
       /\ last.raised = "none"
       /\ last.logged = <<>>

C3_Witness ==
    /\ IsCallback
    /\ NameOf(last.adv) = NameLevel80
    /\ last.device.address \notin AddressesDecoded
    /\ AddressesDecoded # {}
    /\ last.pubs = <<>>

\* C4: a reading with a valid level from an address the registry maps to S
\* issues exactly one publication: retained, on otodata/S/state, with the
\* payload {level, rssi, mac}; and when that address is the only one
\* registered and no state was published before, the callbacks have issued
\* in total the two discovery publications for S and this state publication.
C4_ExpectedLevel(name) ==
    IF name = NameLevel80 THEN [m |-> 80, e |-> 0]
    ELSE IF name = NameLevel55 THEN [m |-> 555, e |-> 1]
    ELSE [m |-> 85, e |-> 1]

C4_ExpectedState ==
    [topic   |-> <<"otodata", last.known_before[last.device.address], "state">>,
     payload |-> [level |-> C4_ExpectedLevel(NameOf(last.adv)),
                  rssi  |-> last.adv.rssi,
                  mac   |-> last.device.address],
     retain  |-> TRUE]

C4_ValidReadingFromKnown ==
    /\ IsCallback
    /\ NameOf(last.adv) \in {NameLevel80, NameLevel55, NameLevelUnicode}
    /\ last.device.address \in DOMAIN last.known_before

C4_ReadingPublishedOnce ==
    C4_ValidReadingFromKnown =>
       /\ last.pubs = << C4_ExpectedState >>
       /\ IsSuffix(last.pubs, AdvPublished)
       /\ ( /\ DOMAIN last.known_before = {last.device.address}
            /\ \A i \in 1..(Len(AdvPublished) - 1) : ~IsStateTopic(AdvPublished[i].topic) )
          => LET S == last.known_before[last.device.address]
             IN  /\ Len(AdvPublished) = 3
                 /\ AdvPublished[1].topic = <<"homeassistant", "sensor", <<"otodata_", S>>, "level", "config">>
                 /\ AdvPublished[2].topic = <<"homeassistant", "sensor", <<"otodata_", S>>, "rssi", "config">>
                 /\ AdvPublished[1].retain /\ AdvPublished[2].retain
                 /\ AdvPublished[3] = C4_ExpectedState

C4_Witness ==
    /\ C4_ValidReadingFromKnown
    /\ last.known_before = ("AA:BB:CC:DD:EE:FF" :> Serial310410)
    /\ last.adv.rssi = -75
    /\ Len(AdvPublished) = 3
    /\ AdvPublished[3].payload = [level |-> [m |-> 80, e |-> 0], rssi |-> -75,
                                  mac |-> "AA:BB:CC:DD:EE:FF"]

\* C5: a callback whose local name is "TM6030 20479133" leaves the address
\* registered under serial "20479133" and that serial announced.
C5_NameFramingDecodesIdentity ==
    ( IsCallback /\ NameOf(last.adv) = NameModel )
    => /\ last.device.address \in DOMAIN known_tanks
       /\ known_tanks[last.device.address] = SerialFromName
       /\ SerialFromName \in configured_serials

\* C6: a callback whose vendor payload begins with the tag but is shorter
\* than 11 bytes decodes no serial, creates no registry entry, issues no
\* discovery publication and raises nothing.
C6_ShortPayloadFailsSilently ==
    ( /\ IsCallback
      /\ HasTag(VendorPayload(last.adv))
      /\ Len(VendorPayload(last.adv)) < 11 )
    => /\ last.decoded = None
       /\ known_tanks = last.known_before
       /\ configured_serials = last.configured_before
       /\ last.pubs = <<>>
       /\ last.raised = "none"

\* C7: parse_serial of a payload of at least 11 bytes that begins with "OTO"
\* is the decimal string of b[7] + 256*b[8] + 65536*b[9] + 16777216*b[10]
\* (0-based offsets); parse_serial of a payload without the tag is None.
C7_SerialIsLittleEndianDecimal ==
    last.op = "parse_serial" =>
       LET b == last.mfg_data
       IN  /\ (HasTag(b) /\ Len(b) >= 11) =>
                 /\ last.serial # None
                 /\ IsCanonicalDecimal(last.serial[1])
                 /\ DecimalLimbs(last.serial[1]) =
                       [hi |-> b[10] + 256 * b[11], lo |-> b[8] + 256 * b[9]]
           /\ ~HasTag(b) => last.serial = None

C7_Witness ==
    /\ last.op = "parse_serial"
    /\ Len(last.mfg_data) >= 11
    /\ HasTag(last.mfg_data)
    /\ SubSeq(last.mfg_data, 8, 11) = <<255, 255, 255, 255>>
    /\ last.serial = Some(Serial4294967295)

\* C8: no exception escapes detection_callback, whatever the advertisement.
C8_NoAdvertisementRaises ==
    (IsCallback /\ OnlyFullPayloadsDecoded) => last.raised = "none"

\* C9: a callback from a registered address whose local name is
\* "level: % vertical" (the token, no number) reports (logs) a decode error,
\* unlike a name without the token, for which nothing is logged.
C9_TokenWithoutNumberIsReported ==
    ( /\ IsCallback
      /\ OnlyFullPayloadsDecoded
      /\ last.device.address \in DOMAIN last.known_before
      /\ HasLevelToken(NameOf(last.adv))
      /\ NameOf(last.adv) = NameNoNumber )
    => /\ last.raised = "none"
       /\ \E i \in 1..Len(last.logged) : last.logged[i].level \in {"WARNING", "ERROR"}

\* C10: a connection notification with rc = 0 issues exactly one publication,
\* "online" retained on the bridge availability topic, and a notification
\* with any other rc issues none.
C10_OnlineOnEverySuccessfulConnect ==
    last.op = "on_connect" =>
       /\ last.pubs = IF last.rc = 0
                      THEN << [topic |-> <<"otodata", "bridge", "status">>,
                               payload |-> "online", retain |-> TRUE] >>
                      ELSE <<>>
       /\ IsSuffix(last.pubs, BridgePublished)

\* a reconnection: the second successful notification publishes "online" again
C10_Witness ==
    /\ last.op = "on_connect"
    /\ last.rc = 0
    /\ Count(published, <<"otodata", "bridge", "status">>) = 2
    /\ nCalls = 3

\* C11: every connection request made so far carried the configured
\* username/password (they were set on the client before client.connect).
C11_ConnectCarriesCredentials ==
    client.connect_request # None =>
       client.connect_request[1].credentials = Some(MQTT_CREDENTIALS)

\* C12: no publish call of the controller carries "offline": a publication
\* on the bridge availability topic carries "online", every other one is a
\* discovery config or a state object; "offline" is the registered last will.
IsConfigTopic(t) == Len(t) = 5 /\ t[1] = "homeassistant" /\ t[5] = "config"

C12_OfflineOnlyAsLastWill ==
    /\ \A i \in 1..Len(published) :
          IF published[i].topic = <<"otodata", "bridge", "status">>
          THEN published[i].payload = "online"
          ELSE IsStateTopic(published[i].topic) \/ IsConfigTopic(published[i].topic)
    /\ client.will \in {None, Some([topic |-> <<"otodata", "bridge", "status">>,
                                    payload |-> "offline", qos |-> 1, retain |-> TRUE])}
    /\ published # <<>> => client.will # None

\* a graceful interrupt after a connection and a reading: nothing but "online"
\* was published on the bridge topic
C12_Witness ==
    /\ pc = "stopped"
    /\ Count(published, <<"otodata", "bridge", "status">>) >= 1
    /\ \E i \in 1..Len(published) : IsStateTopic(published[i].topic)
    /\ client.will # None

\* C13: with two activations of the callback interleaved statement by
\* statement, every serial is announced at most once (one level-config and
\* one rssi-config publication) and, once both activations have finished,
\* every address that sent an identity advertisement is registered under a
\* serial decoded for it.
\* no advertisement is being processed
AllIdle == \A t \in DOMAIN threads \ {0} : threads[t].pc = "idle"

C13_InterleavedAnnouncesOnce ==
    /\ \A S \in SerialsDecoded :
          /\ Count(published, level_config_topic(S)) <= 1
          /\ Count(published, rssi_config_topic(S)) <= 1
    /\ AllIdle =>
          \A a \in AddressesDecoded :
             /\ a \in DOMAIN known_tanks
             /\ <<a, known_tanks[a]>> \in identity_decodes

\* C14: a callback that decodes a serial not yet announced issues the two
\* discovery publications for it, whatever the registry holds for the address.
C14_AnnouncedAtFirstDecode ==
    ( /\ IsCallback
      /\ OnlyFullPayloadsDecoded
      /\ truthy(last.decoded)
      /\ last.decoded[1] \notin last.configured_before )
    => /\ Count(last.pubs, level_config_topic(last.decoded[1])) = 1
       /\ Count(last.pubs, rssi_config_topic(last.decoded[1])) = 1
       /\ last.decoded[1] \in configured_serials

\* C15: no step removes an address from the registry or a serial from the
\* announced set.
C15_RegistryAndRecordMonotonic ==
    [][ /\ DOMAIN known_tanks \subseteq DOMAIN known_tanks'
        /\ configured_serials \subseteq configured_serials' ]_vars

\* both addresses registered and two serials announced, and a later callback
\* has left them in place
C15_Witness ==
    /\ Cardinality(DOMAIN known_tanks) = 2
    /\ Cardinality(configured_serials) = 2
    /\ IsCallback
    /\ Cardinality(DOMAIN last.known_before) = 2
    /\ Cardinality(last.configured_before) = 2

\* C16: every discovery publication issued so far is for a serial that is
\* in configured_serials (the set never shrinks, so a serial that was a
\* member when its publication was issued is a member in every later state).
C16_MarkedBeforeAnnounced ==
    \A i \in 1..Len(published) :
       IsConfigTopic(published[i].topic) =>
          \E S \in configured_serials :
             published[i].topic \in {level_config_topic(S), rssi_config_topic(S)}

\* C17: a callback whose vendor payload does not carry the tag and whose
\* local name does not match the level pattern issues no publication, raises
\* nothing, logs nothing and leaves the registry and the announced set as
\* they were.
C17_Irrelevant ==
    /\ IsCallback
    /\ ~HasTag(VendorPayload(last.adv))
    /\ re_search_level(NameOf(last.adv)) = None

C17_IrrelevantAdvertisementIsNoOp ==
    C17_Irrelevant =>
       /\ last.pubs = <<>>
       /\ last.raised = "none"
       /\ last.logged = <<>>
       /\ known_tanks = last.known_before
       /\ configured_serials = last.configured_before

\* an untagged payload with the model name, from a registered address
C17_Witness ==
    /\ C17_Irrelevant
    /\ VendorPayload(last.adv) = PayloadNoTag
    /\ last.device.address \in DOMAIN last.known_before
    /\ last.pubs = <<>>

\* C18: no callback has both an identity outcome (a registry update or a
\* discovery publication) and a reading outcome (a state publication).
C18_IdentityOutcome ==
    \/ known_tanks # last.known_before
    \/ \E i \in 1..Len(last.pubs) : IsConfigTopic(last.pubs[i].topic)

C18_ReadingOutcome ==
    \E i \in 1..Len(last.pubs) : IsStateTopic(last.pubs[i].topic)

C18_AtMostOneOutcome ==
    (IsCallback /\ OnlyFullPayloadsDecoded) =>
       ~(C18_IdentityOutcome /\ C18_ReadingOutcome)

\* C19: whenever no advertisement is being processed, every serial the
\* registry holds is announced.
C19_RegisteredImpliesAnnounced ==
    AllIdle => \A a \in DOMAIN known_tanks : known_tanks[a] \in configured_serials

\* two addresses registered under the same serial
C19_Witness ==
    /\ Cardinality(DOMAIN known_tanks) = 2
    /\ \A a \in DOMAIN known_tanks : known_tanks[a] = Serial310410
    /\ configured_serials = {Serial310410}

\* C20: every state publication for a serial comes after the level-config
\* and the rssi-config publication for that serial.
C20_StateAfterDiscovery ==
    \A i \in 1..Len(published) :
       IsStateTopic(published[i].topic) =>
          /\ \E j \in 1..(i - 1) :
                published[j].topic =
                   <<"homeassistant", "sensor", <<"otodata_", published[i].topic[2]>>, "level", "config">>
          /\ \E j \in 1..(i - 1) :
                published[j].topic =
                   <<"homeassistant", "sensor", <<"otodata_", published[i].topic[2]>>, "rssi", "config">>

\* one advertisement that registers, announces and publishes a state at once
C20_Witness ==
    /\ IsCallback
    /\ Len(last.pubs) = 3
    /\ IsStateTopic(last.pubs[3].topic)
    /\ IsSuffix(last.pubs, published)

\* The statements agree with detection_callback as a whole: an activation
\* that returns, no other activation having run meanwhile, has had exactly
\* the effect and the result of the callback on the state it was entered in.
StepsAgreeWithCallback ==
    (IsCallback /\ Cardinality(DOMAIN threads \ {0}) = 1) =>
       LET r == detection_callback(last.known_before, last.configured_before,
                                   last.device, last.adv)
       IN  /\ known_tanks = r.known_tanks
           /\ configured_serials = r.configured_serials
           /\ last.pubs = r.pubs
           /\ last.logged = r.logged
           /\ last.raised = r.raised
           /\ last.decoded = r.decoded

====
